---- MODULE Spec2Model ----
(***************************************************************************)
(* Session lifecycle manager of the FlareSolverr client.                   *)
(*                                                                         *)
(* Three builds of the class are modelled:                                 *)
(*   "hooks"     src/src/sessionsManager.ts lines 82-183: the debounced    *)
(*               callback sets the flag and runs the destroy hooks; the    *)
(*               TTL is in minutes;                                        *)
(*   "destroy"   src/unnamed/part_001: the debounced callback is           *)
(*               destroy(), destroy() itself calls the debounced function; *)
(*               the TTL is in seconds;                                    *)
(*   "discarded" src/src/sessionsManager.ts lines 9-72 (SessionsManager):  *)
(*               the constructor calls debounce() and drops the result,    *)
(*               no method calls a debounced function, there are no hooks. *)
(* The dispatcher is FlareSolverrClient of src/unnamed/part_000, of which  *)
(* src/src/types.ts lines 281-461 is a copy that builds SessionsManager.   *)
(*                                                                         *)
(* Time is a millisecond clock `now`.  The debounced function is lodash's  *)
(* trailing-edge debounce: it is idle until it is called, a call records   *)
(* lastCallTime and leaves one timer pending, and the wrapped callback     *)
(* runs once `wait` ms have passed since the last call.                    *)
(***************************************************************************)
EXTENDS Integers, Sequences, FiniteSets, TLC

VARIABLES
    variant,        \* which build of the class is loaded
    mgr,            \* "none" | "live" | "threw": outcome of `new SessionManager`
    ttl,            \* the ttl argument of the constructor or of createSession
    ctorError,      \* the message of the Error the constructor threw, "" if none
    wrapManager,    \* the wrapManager argument of the last createSession
    isDestroyed,    \* SessionManager._isDestroyed
    resetDebounce,  \* SessionManager.resetDebounce (null or a debounced function)
    destroyHooks,   \* SessionManager.destroyHooks
    hookLog,        \* hooks invoked so far, in invocation order
    hookNote,       \* per hook: "removed" while Active and not added since,
                    \* "late" if last added while Destroyed, "" otherwise
    expiries,       \* number of times the debounced callback has run
    calls,          \* every call of destroy/requestGet/requestPost, in issue order
    remoteLog,      \* every request the dispatcher has posted to /v1
    now,            \* clock, ms
    lastActivity,   \* when the manager was constructed or last forwarded a scoped call
    gapsShort,      \* every interval between such moments was shorter than the TTL
    lastReset,      \* when a method of the manager last reached its call of the
                    \* debounced function (this.resetDebounce?.())
    self,           \* which of the two managers the fields above belong to
    other           \* a second manager on the same dispatcher: its fields

vars == <<variant, mgr, ttl, ctorError, wrapManager, isDestroyed,
          resetDebounce, destroyHooks, hookLog, hookNote, expiries, calls,
          remoteLog, now, lastActivity, gapsShort, lastReset, self, other>>

(***************************************************************************)
(* Bounds of the model.                                                    *)
(***************************************************************************)
MaxCalls == 2
MaxHooks == 2
MaxTicks == 4

(***************************************************************************)
(* Inputs.                                                                 *)
(***************************************************************************)
Variants == {"hooks", "destroy", "discarded"}
Hooks == {"h1", "h2"}
AllHooks == Hooks \cup {"h3"}
SessionId == "s1"

\* JavaScript values: undefined, a number, Infinity, a string.
Undefined == [k |-> "undefined", n |-> 0, s |-> ""]
Infinity == [k |-> "Infinity", n |-> 0, s |-> ""]
Num(n) == [k |-> "number", n |-> n, s |-> ""]
Str(s) == [k |-> "string", n |-> 0, s |-> s]
TTLValues ==
    {Undefined, Infinity, Num(-2), Num(-1), Num(0), Num(1), Num(2)}

\* The payloads the callers pass to requestGet, requestPost and destroy.
GetData == [url |-> Str("https://example.com")]
PostData == [url |-> Str("https://example.com"), postData |-> Str("a=b")]
NoData == [x \in {} |-> Undefined]

\* Payloads a caller can build on a base payload: with or without a
\* maxTimeout (a number, or the key present with the value undefined), a
\* session and a session_ttl_minutes of its own.
Extend(objs, key, vals) ==
    objs \cup {[x \in (DOMAIN o) \cup {key} |-> IF x = key THEN v ELSE o[x]] :
                 o \in objs, v \in vals}
Payloads(base) ==
    Extend(Extend(Extend({base}, "maxTimeout", {Undefined, Num(1000)}),
                  "session", {Str("other")}),
           "session_ttl_minutes", {Num(9)})

\* The data argument of createSession: {} or { ttl: t }.
CreateData(t) == IF t.k = "undefined" THEN NoData ELSE [ttl |-> t]

(***************************************************************************)
(* JavaScript helpers.                                                     *)
(***************************************************************************)
\* `if (x)`: undefined, 0 and the empty string are falsy.
Truthy(v) ==
    \/ v.k = "Infinity"
    \/ (v.k = "string" /\ v.s # "")
    \/ (v.k = "number" /\ v.n # 0)

\* { ...a, ...b }: the keys of both, b's values winning.
Spread(a, b) ==
    [x \in (DOMAIN a) \cup (DOMAIN b) |-> IF x \in DOMAIN b THEN b[x] ELSE a[x]]

\* const { key, ...rest } = obj: the rest.
Omit(obj, key) == [x \in (DOMAIN obj) \ {key} |-> obj[x]]

\* a ?? b on a possibly missing key of an object.
Coalesce(obj, key, dflt) ==
    IF key \in DOMAIN obj /\ obj[key].k # "undefined" THEN obj[key] ELSE dflt

(***************************************************************************)
(* lodash debounce(func, wait), trailing edge only.                        *)
(***************************************************************************)
Null == [created |-> FALSE, wait |-> 0, pending |-> FALSE, lastCallTime |-> 0]

\* debounce(func, wait): the debounced function; no timer is started.
Debounce(wait) ==
    [created |-> TRUE, wait |-> wait, pending |-> FALSE, lastCallTime |-> 0]

\* A debounced function that ignores calls made while its timer is pending.
CallDebouncedNoRestart(d, t) ==
    IF ~d.created \/ d.pending THEN d
    ELSE [d EXCEPT !.pending = TRUE, !.lastCallTime = t]

\* this.resetDebounce?.() at time t: nothing on null; otherwise the call is
\* recorded and one timer is pending, due `wait` after this call.
CallDebounced(d, t) ==
    IF ~d.created THEN d
    ELSE [d EXCEPT !.pending = TRUE, !.lastCallTime = t]

\* When the pending timer invokes the callback.
DueTime(d) == d.lastCallTime + d.wait
TimerIsDue(d, t) == d.pending /\ t >= DueTime(d)

\* The timer has expired and the callback is being invoked.
AfterExpiry(d) == [d EXCEPT !.pending = FALSE]

(***************************************************************************)
(* SessionManager constructor.                                             *)
(***************************************************************************)
\* The second argument of debounce(): ttl * 60 * 1000 or ttl * 1000.
DebounceWait(v, t) == IF v = "hooks" THEN t.n * 60 * 1000 ELSE t.n * 1000

\* Whether the constructor stores what debounce() returns in
\* this.resetDebounce, or drops it.
KeepsDebounced(v) == v # "discarded"

\* this.resetDebounce after `debounce(callback, wait)` in the constructor.
Debounced(v, t) == IF KeepsDebounced(v) THEN Debounce(DebounceWait(v, t)) ELSE Null

\* throw new Error('TTL must be a positive number')
TTLErrorMessage == "TTL must be a positive number"

\* A constructor that accepts a negative ttl and passes it on to debounce().
ConstructorNoValidation(v, t) ==
    IF Truthy(t)
    THEN IF (t.k = "number" /\ t.n = 0) \/ t.k = "Infinity"
         THEN [outcome |-> "live", error |-> "", debounce |-> Null]
         ELSE [outcome |-> "live", error |-> "", debounce |-> Debounced(v, t)]
    ELSE [outcome |-> "live", error |-> "", debounce |-> Null]

\* A constructor that falls back to a ttl of one unit when the ttl is absent,
\* 0 or Infinity.
ConstructorDefaultTTL(v, t) ==
    IF t.k = "number" /\ t.n < 0
    THEN [outcome |-> "threw", error |-> TTLErrorMessage, debounce |-> Null]
    ELSE [outcome |-> "live", error |-> "",
          debounce |-> Debounced(v, IF t.k = "number" /\ t.n > 0
                                    THEN t ELSE Num(1))]

\* The constructor: whether it returns or throws, the message it throws, and
\* the value it leaves in this.resetDebounce.
Constructor(v, t) ==
    IF Truthy(t)
    THEN IF t.k = "number" /\ t.n < 0
         THEN [outcome |-> "threw", error |-> TTLErrorMessage, debounce |-> Null]
         ELSE IF (t.k = "number" /\ t.n = 0) \/ t.k = "Infinity"
         THEN [outcome |-> "live", error |-> "", debounce |-> Null]
         ELSE [outcome |-> "live", error |-> "", debounce |-> Debounced(v, t)]
    ELSE [outcome |-> "live", error |-> "", debounce |-> Null]

\* The ttl is a finite, strictly positive number.
PositiveFinite(t) == t.k = "number" /\ t.n > 0

(***************************************************************************)
(* Dispatcher: FlareSolverrClient.                                         *)
(***************************************************************************)
DefaultMaxTimeout == 60000

\* The body handleV1Request posts to /v1.
HandleV1Request(cmd, data) ==
    Spread([cmd |-> Str(cmd),
            maxTimeout |-> Coalesce(data, "maxTimeout", Num(DefaultMaxTimeout))],
           data)

\* What the transport can answer: a response body, or a rejection.  A body
\* is a record of the fields of V1ResponseBase with its shape: "full" when
\* the fields are there, "empty" for a body without them ({} or a string:
\* every field reads as undefined), "null" and "undefined" for a body that
\* is null or undefined.
NoBody ==
    [shape |-> "", status |-> "", message |-> "", startTimestamp |-> 0,
     endTimestamp |-> 0, version |-> "", session |-> ""]
OkBody(cmd) ==
    [shape |-> "full", status |-> "ok",
     message |-> IF cmd = "sessions.destroy"
                 THEN "The session has been removed."
                 ELSE IF cmd = "sessions.create"
                 THEN "Session created successfully."
                 ELSE IF cmd = "sessions.list"
                 THEN ""
                 ELSE "Challenge solved!",
     startTimestamp |-> 1000, endTimestamp |-> 2000, version |-> "v3.3.9",
     session |-> IF cmd = "sessions.create" THEN SessionId ELSE ""]
ErrorBody ==
    [shape |-> "full", status |-> "error", message |-> "Timeout occurred",
     startTimestamp |-> 1000, endTimestamp |-> 61000, version |-> "v3.3.9",
     session |-> ""]
EmptyBody == [NoBody EXCEPT !.shape = "empty"]
NullBody == [NoBody EXCEPT !.shape = "null"]
UndefinedBody == [NoBody EXCEPT !.shape = "undefined"]

\* A rejection of client.post: an AxiosError with a response (isError,
\* hasResponse), an Error without one, or a value that is not an Error
\* (message is then the value itself).
TransportOk(cmd) ==
    [ok |-> TRUE, isError |-> FALSE, hasResponse |-> TRUE, message |-> "",
     data |-> OkBody(cmd)]
AxiosError(message, body) ==
    [ok |-> FALSE, isError |-> TRUE, hasResponse |-> TRUE,
     message |-> message, data |-> body]
PlainError(message) ==
    [ok |-> FALSE, isError |-> TRUE, hasResponse |-> FALSE,
     message |-> message, data |-> NoBody]
RawValue(value) ==
    [ok |-> FALSE, isError |-> FALSE, hasResponse |-> FALSE,
     message |-> value, data |-> NoBody]
TransportErrors ==
    {AxiosError("Request failed with status code 500", ErrorBody),
     PlainError("connect ECONNREFUSED"),
     RawValue("boom")}

\* Every shape of failure of the transport: an AxiosError with a response
\* carrying a V1ResponseError, a body without its fields or null, an Error
\* without a response, or a value that is not an Error.
ErrorBodies ==
    [shape : {"full"},
     status : {"error"},
     message : {"", "Timeout occurred"},
     startTimestamp : {0, 1000},
     endTimestamp : {61000},
     version : {"v3.3.9", "v3.4.0"},
     session : {""}]
ErrorShapes ==
    {AxiosError("Request failed with status code 500", b) : b \in ErrorBodies}
    \cup {AxiosError("Request failed with status code 502", b) :
            b \in {EmptyBody, NullBody, UndefinedBody}}
    \cup {PlainError(m) : m \in {"", "connect ECONNREFUSED"}}
    \cup {RawValue("boom")}

TransportOutcomes(cmd) == {TransportOk(cmd)} \cup TransportErrors

\* handleV1Request on a transport success: return res.data
ReturnedValue(res) == res.data

\* new Date(ts).toString(), rendered up to the locale.
DateString(ts) == "Date(" \o ToString(ts) \o ")"

\* x || 'Unknown error' on a string.
OrUnknown(str) == IF str = "" THEN "Unknown error" ELSE str

\* Reading the fields of error.response.data in the template literal: a
\* field that is not there reads as undefined.
Interpolated(body, key) == IF body.shape = "full" THEN body[key] ELSE "undefined"
MessageOrUnknown(body) ==
    IF body.shape = "full" THEN OrUnknown(body.message) ELSE "Unknown error"
DateOf(body, key) ==
    IF body.shape = "full" THEN DateString(body[key]) ELSE "Invalid Date"

\* handleApiError: what it throws, as the name of the thrown object ("value"
\* for a value that is not an Error, thrown as it came) and its message.
HandleApiError(e) ==
    IF e.isError /\ e.hasResponse
    THEN IF e.data.shape \in {"null", "undefined"}
         THEN [name |-> "TypeError",
               message |-> "Cannot read properties of " \o e.data.shape
                           \o " (reading 'status')"]
         ELSE [name |-> "Error",
               message |-> "[FlareSolverr Error] "
                   \o Interpolated(e.data, "status") \o ": "
                   \o MessageOrUnknown(e.data)
                   \o "\n-> Start at: " \o DateOf(e.data, "startTimestamp")
                   \o "\n-> End at: " \o DateOf(e.data, "endTimestamp")
                   \o "\n-> Version: " \o Interpolated(e.data, "version")]
    ELSE IF e.isError
    THEN [name |-> "Error",
          message |-> "[FlareSolverr Error] " \o OrUnknown(e.message)]
    ELSE [name |-> "value", message |-> e.message]

(***************************************************************************)
(* The log of calls.                                                       *)
(***************************************************************************)
AlreadyDestroyedMessage == "Session already destroyed"

\* The dispatcher as the receiver of a call; the managers are "m1" and "m2".
Client == "client"

\* A call of a method of a manager (createSession, destroy, requestGet,
\* requestPost) or of the dispatcher itself (listSessions, destroySession,
\* requestGet, requestPost): the receiver, whether the timer made it, the
\* request it posted (rid, 0 when none), how it ended, what it threw, and,
\* while it is in flight, the debounced function as the call found it.
Call(owner, op, byTimer, status, rid, error) ==
    [owner |-> owner, op |-> op, byTimer |-> byTimer, status |-> status,
     timerBefore |-> IF status = "pending" THEN resetDebounce ELSE Null,
     rid |-> rid, value |-> NoBody, error |-> error,
     thrown |-> IF error = "" THEN "" ELSE "Error"]

Scoped(c) == c.owner # Client /\ c.op \in {"get", "post"}
CmdOf(op) ==
    IF op \in {"get", "clientGet"} THEN "request.get"
    ELSE IF op \in {"post", "clientPost"} THEN "request.post"
    ELSE IF op = "create" THEN "sessions.create"
    ELSE IF op = "listSessions" THEN "sessions.list" ELSE "sessions.destroy"

\* The calls made by the user, not by a timer.
UserCalls == Cardinality({i \in DOMAIN calls : ~calls[i].byTimer})

\* No call of the manager the caller is operating on is waiting for its
\* remote answer.
NoneInFlight ==
    \A i \in DOMAIN calls : calls[i].owner = self => calls[i].status # "pending"

\* handleV1Request once client.post has settled with outcome o: return
\* res.data, or throw what handleApiError throws.
Resumed(c, o) ==
    IF o.ok
    THEN [c EXCEPT !.status = "ok", !.timerBefore = Null,
                   !.value = ReturnedValue(o)]
    ELSE [c EXCEPT !.status = "remoteError", !.timerBefore = Null,
                   !.error = HandleApiError(o).message,
                   !.thrown = HandleApiError(o).name]

(***************************************************************************)
(* SessionManager.                                                         *)
(***************************************************************************)
\* A guard that requestPost forgets.
GuardThrowsNotOnPost(op, flag) == flag /\ op # "post"

\* if (this._isDestroyed) throw new Error('Session already destroyed')
GuardThrows(op, flag) == flag

\* Whether destroy() calls this.resetDebounce?.() before the remote call.
DestroyCallsDebounced(v) == v = "destroy"

\* A payload in which the caller's own session fields win.
ScopedPayloadCallerWins(v, data, t) ==
    IF v = "hooks"
    THEN Spread([session |-> Str(SessionId), session_ttl_minutes |-> t], data)
    ELSE Spread([session |-> Str(SessionId)], data)

\* The payload requestGet/requestPost hand to the dispatcher.
ScopedPayload(v, data, t) ==
    IF v = "hooks"
    THEN Spread(data, [session |-> Str(SessionId), session_ttl_minutes |-> t])
    ELSE Spread(data, [session |-> Str(SessionId)])

\* The payload destroy() hands to the dispatcher.
DestroyPayload(data) == Spread(data, [session |-> Str(SessionId)])

\* A destroy() that records the outcome of the remote call in the flag.
FlagAfterDestroyAsOutcome(flag, ok) == ok

\* A destroy() that sets the flag whether or not the remote call succeeded.
FlagAfterDestroyAlways(flag, ok) == TRUE

\* destroy() after the await: the flag once the remote call has settled.
FlagAfterDestroy(flag, ok) == IF ok THEN TRUE ELSE flag

\* A forEach that invokes every hook twice.
RECURSIVE ForEachHookTwice(_, _, _)
ForEachHookTwice(hooks, log, throwsAt) ==
    IF hooks = <<>> THEN log
    ELSE ForEachHookTwice(Tail(hooks),
                          Append(Append(log, Head(hooks)), Head(hooks)),
                          throwsAt)

\* this.destroyHooks.forEach((hook) => hook()): the hooks are invoked in
\* array order, and an invocation that throws ends the loop, the exception
\* leaving the timer callback.  throwsAt is the position of the first
\* invocation that throws, 0 when every hook returns.
RECURSIVE ForEachHook(_, _, _)
ForEachHook(hooks, log, throwsAt) ==
    IF hooks = <<>> THEN log
    ELSE IF throwsAt = 1 THEN Append(log, Head(hooks))
    ELSE ForEachHook(Tail(hooks), Append(log, Head(hooks)), throwsAt - 1)

\* The hook is in the array.
Registered(hooks, hook) == \E i \in DOMAIN hooks : hooks[i] = hook

\* A filter that drops only the first registration of the hook.
RECURSIVE FilterOutFirst(_, _)
FilterOutFirst(hooks, hook) ==
    IF hooks = <<>> THEN <<>>
    ELSE IF Head(hooks) # hook
    THEN <<Head(hooks)>> \o FilterOutFirst(Tail(hooks), hook)
    ELSE Tail(hooks)

\* A filter that returns the remaining hooks in reverse order.
RECURSIVE FilterOutReversed(_, _)
FilterOutReversed(hooks, hook) ==
    IF hooks = <<>> THEN <<>>
    ELSE IF Head(hooks) # hook
    THEN FilterOutReversed(Tail(hooks), hook) \o <<Head(hooks)>>
    ELSE FilterOutReversed(Tail(hooks), hook)

\* this.destroyHooks.filter((h) => h !== hook)
RECURSIVE FilterOut(_, _)
FilterOut(hooks, hook) ==
    IF hooks = <<>> THEN <<>>
    ELSE IF Head(hooks) # hook
    THEN <<Head(hooks)>> \o FilterOut(Tail(hooks), hook)
    ELSE FilterOut(Tail(hooks), hook)

(***************************************************************************)
(* Two instances of the class.  The variables mgr .. gapsShort are the     *)
(* fields of the instance the caller is operating on, `other` holds the    *)
(* fields of the second instance; both share the dispatcher.               *)
(***************************************************************************)
\* The fields of an instance that has not been constructed.
NotConstructed(id) ==
    [self |-> id, mgr |-> "none", ttl |-> Undefined, ctorError |-> "",
     isDestroyed |-> FALSE, resetDebounce |-> Null, destroyHooks |-> <<>>,
     hookNote |-> [h \in AllHooks |-> ""], expiries |-> 0,
     lastActivity |-> 0, gapsShort |-> TRUE, lastReset |-> 0]

\* The fields of the instance the caller is operating on.
This ==
    [self |-> self, mgr |-> mgr, ttl |-> ttl, ctorError |-> ctorError,
     isDestroyed |-> isDestroyed, resetDebounce |-> resetDebounce,
     destroyHooks |-> destroyHooks, hookNote |-> hookNote,
     expiries |-> expiries, lastActivity |-> lastActivity,
     gapsShort |-> gapsShort, lastReset |-> lastReset]

(***************************************************************************)
(* Initial state: the class is loaded, no manager has been constructed.    *)
(***************************************************************************)
Init ==
    /\ variant \in Variants
    /\ mgr = "none"
    /\ ttl = Undefined
    /\ ctorError = ""
    /\ wrapManager = FALSE
    /\ isDestroyed = FALSE
    /\ resetDebounce = Null
    /\ destroyHooks = <<>>
    /\ hookLog = <<>>
    /\ hookNote = [h \in AllHooks |-> ""]
    /\ expiries = 0
    /\ calls = <<>>
    /\ remoteLog = <<>>
    /\ now = 0
    /\ lastActivity = 0
    /\ gapsShort = TRUE
    /\ lastReset = 0
    /\ self = "m1"
    /\ other = NotConstructed("m2")

\* new SessionManager(sessionId, flareSolverr, t)
NewSessionManager(t) ==
    /\ mgr = "none"
    /\ NoneInFlight
    /\ mgr' = Constructor(variant, t).outcome
    /\ ctorError' = Constructor(variant, t).error
    /\ resetDebounce' = Constructor(variant, t).debounce
    /\ ttl' = t
    /\ lastActivity' = IF Constructor(variant, t).outcome = "live"
                       THEN now ELSE lastActivity
    /\ UNCHANGED <<variant, wrapManager, isDestroyed, destroyHooks, hookLog,
                   hookNote, expiries, calls, remoteLog, now, gapsShort,
                   lastReset, self, other>>

\* createSession(data, wrap), up to the await: the ttl is taken out of data
\* and the rest is posted as sessions.create.
CreateSession(t, wrap) ==
    /\ mgr = "none"
    /\ NoneInFlight
    /\ UserCalls < MaxCalls
    /\ ttl' = t
    /\ wrapManager' = wrap
    /\ remoteLog' = Append(remoteLog,
           HandleV1Request("sessions.create", Omit(CreateData(t), "ttl")))
    /\ calls' = Append(calls, Call(self, "create", FALSE, "pending",
                                   Len(remoteLog) + 1, ""))
    /\ UNCHANGED <<variant, mgr, ctorError, isDestroyed, resetDebounce,
                   destroyHooks, hookLog, hookNote, expiries, now,
                   lastActivity, gapsShort, lastReset, self, other>>

\* The remote call of createSession settles: on a failure handleApiError
\* throws; on a success the manager is constructed when wrapManager or the
\* ttl is truthy, and the response is returned otherwise.
SettleCreate(i, o) ==
    /\ calls[i].op = "create"
    /\ calls[i].owner = self
    /\ calls[i].status = "pending"
    /\ IF o.ok /\ (wrapManager \/ Truthy(ttl))
       THEN /\ mgr' = Constructor(variant, ttl).outcome
            /\ ctorError' = Constructor(variant, ttl).error
            /\ resetDebounce' = Constructor(variant, ttl).debounce
            /\ calls' = [calls EXCEPT ![i] =
                   IF Constructor(variant, ttl).outcome = "threw"
                   THEN [@ EXCEPT !.status = "threw", !.timerBefore = Null,
                                  !.error = Constructor(variant, ttl).error,
                                  !.thrown = "Error"]
                   ELSE [@ EXCEPT !.status = "ok", !.timerBefore = Null]]
            /\ lastActivity' = IF Constructor(variant, ttl).outcome = "live"
                               THEN now ELSE lastActivity
       ELSE /\ calls' = [calls EXCEPT ![i] = Resumed(@, o)]
            /\ UNCHANGED <<mgr, ctorError, resetDebounce, lastActivity>>
    /\ UNCHANGED <<variant, ttl, wrapManager, isDestroyed, destroyHooks,
                   hookLog, hookNote, expiries, remoteLog, now, gapsShort,
                   lastReset, self, other>>

\* addDestroyHook(hook)
AddDestroyHook(hook) ==
    /\ mgr = "live"
    /\ variant = "hooks"
    /\ destroyHooks' = Append(destroyHooks, hook)
    /\ hookNote' = [hookNote EXCEPT ![hook] = IF isDestroyed THEN "late" ELSE ""]
    /\ UNCHANGED <<variant, mgr, ttl, ctorError, wrapManager, isDestroyed,
                   resetDebounce, hookLog, expiries, calls, remoteLog, now,
                   lastActivity, gapsShort, lastReset, self, other>>

\* removeDestroyHook(hook)
RemoveDestroyHook(hook) ==
    /\ mgr = "live"
    /\ variant = "hooks"
    /\ destroyHooks' = FilterOut(destroyHooks, hook)
    /\ hookNote' = [hookNote EXCEPT ![hook] =
           IF ~isDestroyed /\ Registered(destroyHooks, hook)
           THEN "removed" ELSE @]
    /\ UNCHANGED <<variant, mgr, ttl, ctorError, wrapManager, isDestroyed,
                   resetDebounce, hookLog, expiries, calls, remoteLog, now,
                   lastActivity, gapsShort, lastReset, self, other>>

\* The synchronous part of destroy(), up to the await; rd is the debounced
\* function as the call finds it.
DestroyBody(byTimer, rd) ==
    IF GuardThrows("destroy", isDestroyed)
    THEN /\ calls' = Append(calls, Call(self, "destroy", byTimer,
                                        "alreadyDestroyed", 0,
                                        AlreadyDestroyedMessage))
         /\ resetDebounce' = rd
         /\ lastReset' = lastReset
         /\ remoteLog' = remoteLog
    ELSE /\ resetDebounce' = IF DestroyCallsDebounced(variant)
                             THEN CallDebounced(rd, now) ELSE rd
         /\ lastReset' = IF DestroyCallsDebounced(variant)
                         THEN now ELSE lastReset
         /\ remoteLog' = Append(remoteLog,
                HandleV1Request("sessions.destroy", DestroyPayload(NoData)))
         /\ calls' = Append(calls, Call(self, "destroy", byTimer, "pending",
                                        Len(remoteLog) + 1, ""))

\* destroy(), called by the user
Destroy ==
    /\ mgr = "live"
    /\ UserCalls < MaxCalls
    /\ DestroyBody(FALSE, resetDebounce)
    /\ UNCHANGED <<variant, mgr, ttl, ctorError, wrapManager, isDestroyed,
                   destroyHooks, hookLog, hookNote, expiries, now,
                   lastActivity, gapsShort, self, other>>

\* The synchronous part of requestGet/requestPost, up to the remote call.
Request(op, data) ==
    /\ mgr = "live"
    /\ UserCalls < MaxCalls
    /\ IF GuardThrows(op, isDestroyed)
       THEN /\ calls' = Append(calls, Call(self, op, FALSE, "alreadyDestroyed",
                                           0, AlreadyDestroyedMessage))
            /\ UNCHANGED <<resetDebounce, remoteLog, lastActivity, gapsShort,
                           lastReset>>
       ELSE /\ resetDebounce' = CallDebounced(resetDebounce, now)
            /\ remoteLog' = Append(remoteLog,
                   HandleV1Request(CmdOf(op), ScopedPayload(variant, data, ttl)))
            /\ calls' = Append(calls, Call(self, op, FALSE, "pending",
                                           Len(remoteLog) + 1, ""))
            /\ lastActivity' = now
            /\ lastReset' = IF KeepsDebounced(variant) THEN now ELSE lastReset
            /\ gapsShort' = (gapsShort /\
                             now - lastActivity < DebounceWait(variant, ttl))
    /\ UNCHANGED <<variant, mgr, ttl, ctorError, wrapManager, isDestroyed,
                   destroyHooks, hookLog, hookNote, expiries, now, self,
                   other>>

\* requestGet(data)
RequestGet == Request("get", GetData)

\* requestPost(data)
RequestPost == Request("post", PostData)

\* A method of the dispatcher called directly, up to the await: it hands
\* the command and the caller's data to handleV1Request and touches no
\* manager.
ClientCall(op, data) ==
    /\ UserCalls < MaxCalls
    /\ remoteLog' = Append(remoteLog, HandleV1Request(CmdOf(op), data))
    /\ calls' = Append(calls, Call(Client, op, FALSE, "pending",
                                   Len(remoteLog) + 1, ""))
    /\ UNCHANGED <<variant, mgr, ttl, ctorError, wrapManager, isDestroyed,
                   resetDebounce, destroyHooks, hookLog, hookNote, expiries,
                   now, lastActivity, gapsShort, lastReset, self, other>>

\* FlareSolverrClient.listSessions(data = {})
ListSessions == ClientCall("listSessions", NoData)

\* FlareSolverrClient.destroySession(data)
DestroySession(data) == ClientCall("destroySession", data)

\* FlareSolverrClient.requestGet(data) and requestPost(data)
ClientRequestGet(data) == ClientCall("clientGet", data)
ClientRequestPost(data) == ClientCall("clientPost", data)

\* A settle step that, when a scoped call fails, puts the debounced function
\* back as the call found it.
SettleRestoringTimer(i, o) ==
    /\ calls[i].op # "create"
    /\ calls[i].owner \in {self, Client}
    /\ calls[i].status = "pending"
    /\ calls' = [calls EXCEPT ![i] = Resumed(@, o)]
    /\ isDestroyed' = IF calls[i].op = "destroy"
                      THEN FlagAfterDestroy(isDestroyed, o.ok)
                      ELSE isDestroyed
    /\ resetDebounce' = IF Scoped(calls[i]) /\ ~o.ok
                        THEN calls[i].timerBefore ELSE resetDebounce
    /\ UNCHANGED <<variant, mgr, ttl, ctorError, wrapManager, destroyHooks,
                   hookLog, hookNote, expiries, remoteLog, now, lastActivity,
                   gapsShort, lastReset, self, other>>

\* A settle step in which a requestGet/requestPost that has succeeded calls
\* the debounced function.
SettleResettingTimer(i, o) ==
    /\ calls[i].op # "create"
    /\ calls[i].owner \in {self, Client}
    /\ calls[i].status = "pending"
    /\ calls' = [calls EXCEPT ![i] = Resumed(@, o)]
    /\ isDestroyed' = IF calls[i].op = "destroy"
                      THEN FlagAfterDestroy(isDestroyed, o.ok)
                      ELSE isDestroyed
    /\ resetDebounce' = IF Scoped(calls[i]) /\ o.ok
                        THEN CallDebounced(resetDebounce, now)
                        ELSE resetDebounce
    /\ UNCHANGED <<variant, mgr, ttl, ctorError, wrapManager, destroyHooks,
                   hookLog, hookNote, expiries, remoteLog, now, lastActivity,
                   gapsShort, lastReset, self, other>>

\* A settle step that, when the remote call has failed, posts the request
\* again instead of throwing.
SettleRetrying(i, o) ==
    /\ calls[i].op # "create"
    /\ calls[i].owner \in {self, Client}
    /\ calls[i].status = "pending"
    /\ IF ~o.ok /\ Len(remoteLog) <= MaxCalls
       THEN /\ remoteLog' = Append(remoteLog, remoteLog[calls[i].rid])
            /\ calls' = [calls EXCEPT ![i].rid = Len(remoteLog) + 1]
            /\ isDestroyed' = isDestroyed
       ELSE /\ remoteLog' = remoteLog
            /\ calls' = [calls EXCEPT ![i] = Resumed(@, o)]
            /\ isDestroyed' = IF calls[i].op = "destroy"
                              THEN FlagAfterDestroy(isDestroyed, o.ok)
                              ELSE isDestroyed
    /\ UNCHANGED <<variant, mgr, ttl, ctorError, wrapManager, resetDebounce,
                   destroyHooks, hookLog, hookNote, expiries, now,
                   lastActivity, gapsShort, lastReset, self, other>>

\* The remote call of calls[i], a call on the manager, settles with outcome o
\* and the method resumes:
\* handleV1Request returns res.data or handleApiError throws; destroy() sets
\* the flag after a successful await.
Settle(i, o) ==
    /\ calls[i].op # "create"
    /\ calls[i].owner \in {self, Client}
    /\ calls[i].status = "pending"
    /\ calls' = [calls EXCEPT ![i] = Resumed(@, o)]
    /\ isDestroyed' = IF calls[i].op = "destroy"
                      THEN FlagAfterDestroy(isDestroyed, o.ok)
                      ELSE isDestroyed
    /\ UNCHANGED <<variant, mgr, ttl, ctorError, wrapManager, resetDebounce,
                   destroyHooks, hookLog, hookNote, expiries, remoteLog, now,
                   lastActivity, gapsShort, lastReset, self, other>>

\* An expiry callback that also posts sessions.destroy.
TimerExpiredHooksPosting ==
    /\ mgr = "live"
    /\ variant = "hooks"
    /\ TimerIsDue(resetDebounce, now)
    /\ resetDebounce' = AfterExpiry(resetDebounce)
    /\ isDestroyed' = TRUE
    /\ \E throwsAt \in 0..Len(destroyHooks) :
           hookLog' = ForEachHook(destroyHooks, hookLog, throwsAt)
    /\ expiries' = expiries + 1
    /\ remoteLog' = Append(remoteLog,
           HandleV1Request("sessions.destroy", DestroyPayload(NoData)))
    /\ UNCHANGED <<variant, mgr, ttl, ctorError, wrapManager, destroyHooks,
                   hookNote, calls, now, lastActivity, gapsShort, lastReset,
                   self, other>>

\* An expiry callback whose destroyed flag is shared by all instances.
TimerExpiredHooksShared ==
    /\ mgr = "live"
    /\ variant = "hooks"
    /\ TimerIsDue(resetDebounce, now)
    /\ resetDebounce' = AfterExpiry(resetDebounce)
    /\ isDestroyed' = TRUE
    /\ other' = [other EXCEPT !.isDestroyed = TRUE]
    /\ \E throwsAt \in 0..Len(destroyHooks) :
           hookLog' = ForEachHook(destroyHooks, hookLog, throwsAt)
    /\ expiries' = expiries + 1
    /\ UNCHANGED <<variant, mgr, ttl, ctorError, wrapManager, destroyHooks,
                   hookNote, calls, remoteLog, now, lastActivity, gapsShort,
                   lastReset, self>>

\* The debounce timer expires, "hooks" build: the callback sets the flag and
\* runs the hooks, any of which may throw.
TimerExpiredHooks ==
    /\ mgr = "live"
    /\ variant = "hooks"
    /\ TimerIsDue(resetDebounce, now)
    /\ resetDebounce' = AfterExpiry(resetDebounce)
    /\ isDestroyed' = TRUE
    /\ \E throwsAt \in 0..Len(destroyHooks) :
           hookLog' = ForEachHook(destroyHooks, hookLog, throwsAt)
    /\ expiries' = expiries + 1
    /\ UNCHANGED <<variant, mgr, ttl, ctorError, wrapManager, destroyHooks,
                   hookNote, calls, remoteLog, now, lastActivity, gapsShort,
                   lastReset, self, other>>

\* The debounce timer expires, "destroy" build: the callback is destroy().
TimerExpiredDestroy ==
    /\ mgr = "live"
    /\ variant = "destroy"
    /\ TimerIsDue(resetDebounce, now)
    /\ DestroyBody(TRUE, AfterExpiry(resetDebounce))
    /\ expiries' = expiries + 1
    /\ UNCHANGED <<variant, mgr, ttl, ctorError, wrapManager, isDestroyed,
                   destroyHooks, hookLog, hookNote, now, lastActivity,
                   gapsShort, self, other>>

\* The model turns to the other instance: from now on the operations, the
\* settlements and the timer are those of that instance.
SwitchManager ==
    /\ other' = This
    /\ self' = other.self
    /\ mgr' = other.mgr
    /\ ttl' = other.ttl
    /\ ctorError' = other.ctorError
    /\ isDestroyed' = other.isDestroyed
    /\ resetDebounce' = other.resetDebounce
    /\ destroyHooks' = other.destroyHooks
    /\ hookNote' = other.hookNote
    /\ expiries' = other.expiries
    /\ lastActivity' = other.lastActivity
    /\ gapsShort' = other.gapsShort
    /\ lastReset' = other.lastReset
    /\ UNCHANGED <<variant, wrapManager, hookLog, calls, remoteLog, now>>

\* Half a TTL unit: half a minute or half a second.
HalfUnit(v) == DebounceWait(v, Num(1)) \div 2

\* Time passes; a timer that is due runs before the clock moves on.
Tick ==
    /\ mgr = "live"
    /\ ~TimerIsDue(resetDebounce, now)
    /\ ~TimerIsDue(other.resetDebounce, now)
    /\ now < MaxTicks * HalfUnit(variant)
    /\ now' = now + HalfUnit(variant)
    /\ UNCHANGED <<variant, mgr, ttl, ctorError, wrapManager, isDestroyed,
                   resetDebounce, destroyHooks, hookLog, hookNote, expiries,
                   calls, remoteLog, lastActivity, gapsShort, lastReset, self,
                   other>>

Next ==
    \/ \E t \in TTLValues : NewSessionManager(t)
    \/ \E t \in TTLValues : \E wrap \in BOOLEAN : CreateSession(t, wrap)
    \/ \E i \in DOMAIN calls : \E o \in TransportOutcomes("sessions.create") :
           SettleCreate(i, o)
    \/ \E h \in Hooks : Len(destroyHooks) < MaxHooks /\ AddDestroyHook(h)
    \/ \E h \in Hooks : RemoveDestroyHook(h)
    \/ Destroy
    \/ RequestGet
    \/ RequestPost
    \/ \E i \in DOMAIN calls : \E o \in TransportOutcomes(CmdOf(calls[i].op)) :
           Settle(i, o)
    \/ TimerExpiredHooks
    \/ TimerExpiredDestroy
    \/ Tick

Spec == Init /\ [][Next]_vars

(***************************************************************************)
(* The dispatcher's error handling on its own: a session without TTL, and  *)
(* every remote call failing, in every shape of failure.                   *)
(***************************************************************************)
NextErrors ==
    \/ NewSessionManager(Undefined)
    \/ CreateSession(Undefined, FALSE)
    \/ ListSessions
    \/ \E i \in DOMAIN calls : \E e \in ErrorShapes : SettleCreate(i, e)
    \/ Destroy
    \/ RequestGet
    \/ RequestPost
    \/ \E i \in DOMAIN calls : \E e \in ErrorShapes : Settle(i, e)

SpecErrors == Init /\ [][NextErrors]_vars

(***************************************************************************)
(* Every command on its own session: the methods of a manager with or      *)
(* without a TTL and its timer, createSession, and the methods of the      *)
(* dispatcher called directly for the same session, every remote call      *)
(* succeeding or failing.                                                  *)
(***************************************************************************)
NextCommands ==
    \/ \E t \in {Undefined, Num(1)} : NewSessionManager(t)
    \/ \E t \in {Undefined, Num(1)} : CreateSession(t, TRUE)
    \/ \E i \in DOMAIN calls : \E o \in TransportOutcomes("sessions.create") :
           SettleCreate(i, o)
    \/ Destroy
    \/ RequestGet
    \/ RequestPost
    \/ ListSessions
    \/ DestroySession([session |-> Str(SessionId)])
    \/ ClientRequestGet(Spread(GetData, [session |-> Str(SessionId)]))
    \/ ClientRequestPost(Spread(PostData, [session |-> Str(SessionId)]))
    \/ \E i \in DOMAIN calls : \E o \in TransportOutcomes(CmdOf(calls[i].op)) :
           Settle(i, o)
    \/ TimerExpiredHooks
    \/ TimerExpiredDestroy
    \/ Tick

SpecCommands == Init /\ [][NextCommands]_vars

(***************************************************************************)
(* The wire requests on their own: a session with or without a TTL, the    *)
(* caller passing every payload of Payloads, the clock standing still.     *)
(***************************************************************************)
NextWire ==
    \/ \E t \in {Undefined, Num(2)} : NewSessionManager(t)
    \/ \E d \in Payloads(GetData) : Request("get", d)
    \/ \E d \in Payloads(PostData) : Request("post", d)
    \/ ListSessions
    \/ \E d \in Payloads(NoData) : DestroySession(d)
    \/ \E d \in Payloads(GetData) : ClientRequestGet(d)
    \/ \E d \in Payloads(PostData) : ClientRequestPost(d)
    \/ \E i \in DOMAIN calls : Settle(i, TransportOk(CmdOf(calls[i].op)))

SpecWire == Init /\ [][NextWire]_vars

(***************************************************************************)
(* The hook registry on its own: three functions, registries of up to      *)
(* MaxHooks + 1 entries, a session with a TTL of one unit and its timer.   *)
(***************************************************************************)
NextHooks ==
    \/ NewSessionManager(Num(1))
    \/ \E h \in AllHooks :
           Len(destroyHooks) < MaxHooks + 1 /\ AddDestroyHook(h)
    \/ \E h \in AllHooks : RemoveDestroyHook(h)
    \/ RequestGet
    \/ \E i \in DOMAIN calls : Settle(i, TransportOk(CmdOf(calls[i].op)))
    \/ TimerExpiredHooks
    \/ Tick

SpecHooks == Init /\ [][NextHooks]_vars

(***************************************************************************)
(* Two managers on one dispatcher: each is constructed with or without a   *)
(* TTL, registers and removes one hook, is called, destroyed and expires;  *)
(* the calls of one are answered, with success or a connection error, and  *)
(* its timer runs, while calls of the other are in flight.                 *)
(***************************************************************************)
NextTwo ==
    \/ \E t \in {Undefined, Num(1)} : NewSessionManager(t)
    \/ Len(destroyHooks) < MaxHooks /\ AddDestroyHook("h1")
    \/ RemoveDestroyHook("h1")
    \/ Destroy
    \/ RequestGet
    \/ \E i \in DOMAIN calls :
           \E o \in {TransportOk(CmdOf(calls[i].op)),
                     PlainError("connect ECONNREFUSED")} :
               Settle(i, o)
    \/ TimerExpiredHooks
    \/ TimerExpiredDestroy
    \/ Tick
    \/ SwitchManager

SpecTwo == Init /\ [][NextTwo]_vars

(***************************************************************************)
(* Vocabulary of the properties.                                           *)
(***************************************************************************)
\* This step issues a call: the new call is the last of calls'.
Issues == Len(calls') = Len(calls) + 1
Issued == calls'[Len(calls')]

\* This step settles the remote call of calls[i] with the given status.
Settles(i, status) == calls[i].status = "pending" /\ calls'[i].status = status

\* This step runs the debounced callback.
Expires == expiries' = expiries + 1

\* The errors a failed remote call can surface.
RemoteErrorMessages == {HandleApiError(e).message : e \in TransportErrors}

\* A destroy() called by the user has succeeded.
DestroyedByDestroy ==
    \E i \in DOMAIN calls :
        calls[i].op = "destroy" /\ ~calls[i].byTimer /\ calls[i].status = "ok"

\* The user has never called destroy().
NoUserDestroy ==
    \A i \in DOMAIN calls : calls[i].op = "destroy" => calls[i].byTimer

\* No requestGet/requestPost has been issued.
NoScopedCall == \A i \in DOMAIN calls : ~Scoped(calls[i])

\* The string contains the substring.
Contains(str, sub) ==
    \/ sub = ""
    \/ \E i \in 1..(Len(str) - Len(sub) + 1) :
           SubSeq(str, i, i + Len(sub) - 1) = sub

\* This step is the failure, in shape e, of the remote call of calls[i].
Fails(i, e) == Settle(i, e) \/ SettleCreate(i, e)

\* The request this step posts.
Posted == remoteLog'[Len(remoteLog')]

\* Reading a key of an object: undefined when the key is missing.
Get(obj, key) == IF key \in DOMAIN obj THEN obj[key] ELSE Undefined

\* The sessions.destroy requests posted so far.
DestroyRequests ==
    {r \in DOMAIN remoteLog : remoteLog[r].cmd = Str("sessions.destroy")}

\* How many times the hook has been invoked.
Invocations(log, hook) == Cardinality({i \in DOMAIN log : log[i] = hook})

\* The idle timeout in ms.
Wait == DebounceWait(variant, ttl)

(***************************************************************************)
(* C1: once the session is Destroyed, every later call of destroy,         *)
(* requestGet or requestPost fails with 'Session already destroyed' and    *)
(* posts no request to the dispatcher.                                     *)
(***************************************************************************)
C1_DestroyedCallsFail ==
    [][(isDestroyed /\ Issues) =>
           /\ Issued.status = "alreadyDestroyed"
           /\ Issued.error = "Session already destroyed"
           /\ Issued.rid = 0
           /\ remoteLog' = remoteLog]_vars

\* The timer has destroyed the session and a later requestPost has failed.
C1_Witness ==
    /\ isDestroyed
    /\ expiries = 1
    /\ Len(calls) = 2
    /\ calls[2].op = "post"
    /\ calls[2].status = "alreadyDestroyed"
    /\ Len(remoteLog) = 1

(***************************************************************************)
(* C2: the destroyed flag is false after construction and, once true,      *)
(* never becomes false again.                                              *)
(***************************************************************************)
C2_FlagMonotonic ==
    [][/\ (mgr = "none" => ~isDestroyed')
       /\ (isDestroyed => isDestroyed')]_vars

\* The session is Destroyed and a destroy() that was in flight has failed.
C2_Witness ==
    /\ isDestroyed
    /\ \E i \in DOMAIN calls :
           calls[i].op = "destroy" /\ calls[i].status = "remoteError"

(***************************************************************************)
(* C3: with a finite, strictly positive TTL and no scoped call ever        *)
(* issued, the session is Destroyed once the TTL has elapsed since         *)
(* construction.                                                           *)
(***************************************************************************)
C3_ArmedAtConstruction ==
    (mgr = "live" /\ PositiveFinite(ttl) /\ NoScopedCall /\ now > Wait)
        => isDestroyed

(***************************************************************************)
(* C4: when the idle timer expires, the session becomes Destroyed and      *)
(* every hook registered at that moment is invoked exactly once, in        *)
(* registration order, whether or not a hook throws.                       *)
(***************************************************************************)
C4_ExpiryRunsHooks ==
    [][(variant = "hooks" /\ Expires) =>
           /\ isDestroyed'
           /\ hookLog = <<>>
           /\ hookLog' = destroyHooks
           /\ destroyHooks' = destroyHooks]_vars

(***************************************************************************)
(* C5: a destroy() that succeeds on an Active session invokes every        *)
(* registered hook exactly once, in registration order.                    *)
(***************************************************************************)
C5_DestroyRunsHooks ==
    [][\A i \in DOMAIN calls :
           (variant = "hooks" /\ calls[i].op = "destroy" /\ ~isDestroyed
            /\ Settles(i, "ok"))
               => hookLog' = hookLog \o destroyHooks]_vars

(***************************************************************************)
(* C6: once a destroy() has succeeded, no idle timer is pending.           *)
(***************************************************************************)
C6_DestroyCancelsTimer == DestroyedByDestroy => ~resetDebounce.pending

(***************************************************************************)
(* C7: destroy() leaves the flag alone until its remote call settles; on   *)
(* success it sets the flag and returns the response; on failure it throws *)
(* the dispatcher's error and leaves the flag as it is; a destroy() on a   *)
(* session that is still Active posts a sessions.destroy request, also     *)
(* after an earlier destroy() has failed.                                  *)
(***************************************************************************)
C7_DestroyFlagAfterRemote ==
    [][/\ (Issues /\ Issued.op = "destroy") =>
              /\ isDestroyed' = isDestroyed
              /\ ~isDestroyed =>
                     /\ Issued.status = "pending"
                     /\ Len(remoteLog') = Len(remoteLog) + 1
                     /\ Issued.rid = Len(remoteLog')
                     /\ remoteLog'[Issued.rid].cmd = Str("sessions.destroy")
                     /\ remoteLog'[Issued.rid].session = Str(SessionId)
       /\ \A i \in DOMAIN calls :
              calls[i].op = "destroy" =>
                  /\ Settles(i, "ok") =>
                         /\ isDestroyed'
                         /\ calls'[i].value = OkBody("sessions.destroy")
                  /\ Settles(i, "remoteError") =>
                         /\ isDestroyed' = isDestroyed
                         /\ calls'[i].error \in RemoteErrorMessages]_vars

\* A destroy() has failed, the session stayed Active, and another destroy()
\* has posted its own request and succeeded.
C7_Witness ==
    /\ Len(calls) = 2
    /\ calls[1].op = "destroy" /\ calls[1].status = "remoteError"
    /\ calls[2].op = "destroy" /\ calls[2].status = "ok" /\ calls[2].rid = 2
    /\ ~calls[2].byTimer
    /\ expiries = 0
    /\ isDestroyed

C10_ActivityPreventsExpiry ==
    (/\ mgr = "live"
     /\ PositiveFinite(ttl)
     /\ NoUserDestroy
     /\ gapsShort
     /\ now - lastActivity < Wait)
        => (~isDestroyed /\ expiries = 0)

\* Two scoped calls, the second still in flight, have kept the session Active
\* past the moment the first call's timer would have fired.
C10_Witness ==
    /\ mgr = "live"
    /\ PositiveFinite(ttl)
    /\ gapsShort
    /\ Len(calls) = 2
    /\ Scoped(calls[1]) /\ Scoped(calls[2])
    /\ calls[2].status = "pending"
    /\ DueTime(calls[2].timerBefore) <= now
    /\ calls[2].timerBefore.pending
    /\ now - lastActivity < Wait
    /\ ~isDestroyed

(***************************************************************************)
(* C11: constructing a manager with a strictly negative TTL throws         *)
(* 'TTL must be a positive number'; the construction creates no debounced  *)
(* function and arms no timer, and no timer ever fires.                    *)
(***************************************************************************)
C11_NegativeTTLThrows ==
    (mgr # "none" /\ ttl.k = "number" /\ ttl.n < 0) =>
        /\ mgr = "threw"
        /\ ctorError = "TTL must be a positive number"
        /\ ~resetDebounce.created
        /\ ~resetDebounce.pending
        /\ expiries = 0
        /\ ~isDestroyed

\* new SessionManager(id, client, -2) has thrown.
C11_Witness ==
    /\ mgr = "threw"
    /\ ttl = Num(-2)
    /\ ctorError = TTLErrorMessage
    /\ resetDebounce = Null

(***************************************************************************)
(* C12: a manager constructed with the TTL absent, 0 or Infinity has no    *)
(* debounced function, so no timer is ever pending or fires, whatever      *)
(* calls are made and however much time passes; if the session is          *)
(* Destroyed, a destroy() called by the user has succeeded.                *)
(***************************************************************************)
C12_NoTimerWithoutTTL ==
    (mgr = "live" /\ ttl \in {Undefined, Num(0), Infinity}) =>
        /\ ~resetDebounce.created
        /\ ~resetDebounce.pending
        /\ expiries = 0
        /\ hookLog = <<>>
        /\ isDestroyed => DestroyedByDestroy

\* TTL Infinity: two scoped calls were forwarded and answered, the clock has
\* reached its bound and the session is Active.
C12_Witness ==
    /\ mgr = "live"
    /\ ttl = Infinity
    /\ Len(calls) = 2
    /\ Scoped(calls[1]) /\ calls[1].status = "ok"
    /\ Scoped(calls[2]) /\ calls[2].status = "ok"
    /\ now = MaxTicks * HalfUnit(variant)
    /\ ~isDestroyed

(***************************************************************************)
(* C13: no call of destroy, requestGet or requestPost returns a success    *)
(* response at a moment when the session is already Destroyed, calls that  *)
(* were in flight when the session became Destroyed included.              *)
(***************************************************************************)
C13_NoSuccessOnceDestroyed ==
    [][\A i \in DOMAIN calls :
           (calls[i].op \in {"get", "post", "destroy"} /\ Settles(i, "ok"))
               => ~isDestroyed]_vars

(***************************************************************************)
(* C14: while the session is Destroyed no step arms or re-arms the idle    *)
(* timer: the debounced function is only called by a method that has just  *)
(* found the session Active; a requestGet/requestPost that resolves,       *)
(* successfully or not, after the session has become Destroyed leaves the  *)
(* debounced function as it is.                                            *)
(***************************************************************************)
C14_NoArmingOnceDestroyed ==
    [][/\ isDestroyed =>
              \/ resetDebounce' = resetDebounce
              \/ /\ ~resetDebounce'.pending
                 /\ resetDebounce'.lastCallTime = resetDebounce.lastCallTime
       /\ \A i \in DOMAIN calls :
              (isDestroyed /\ Scoped(calls[i]) /\ calls[i].status = "pending"
               /\ calls'[i].status # "pending")
                  => resetDebounce' = resetDebounce]_vars

\* The timer expired while a requestGet/requestPost was in flight; the call
\* has since been answered and no timer is pending.
C14_Witness ==
    /\ expiries = 1
    /\ isDestroyed
    /\ Len(calls) = 1
    /\ Scoped(calls[1]) /\ calls[1].status = "ok"
    /\ ~resetDebounce.pending

(***************************************************************************)
(* C15: a hook that removeDestroyHook has removed while the session was    *)
(* Active, and that has not been added again since, is not in the registry *)
(* and is not invoked by any later step, be it a timer expiry, a destroy() *)
(* or any other operation.                                                 *)
(***************************************************************************)
C15_RemovedHookNotInvoked ==
    [][\A h \in Hooks :
           hookNote[h] = "removed" =>
               /\ ~Registered(destroyHooks, h)
               /\ Invocations(hookLog', h) = Invocations(hookLog, h)]_vars

\* h1 was registered and removed while the session was Active; the timer has
\* since expired and invoked h2 only.
C15_Witness ==
    /\ hookNote["h1"] = "removed"
    /\ expiries = 1
    /\ isDestroyed
    /\ hookLog = <<"h2">>

(***************************************************************************)
(* C16: a hook added with addDestroyHook while the session is Destroyed is *)
(* invoked at its registration or never: no step other than its           *)
(* registration invokes it.                                                *)
(***************************************************************************)
C16_LateHookNotInvokedLater ==
    [][\A h \in Hooks :
           (hookNote[h] = "late" /\ destroyHooks' = destroyHooks) =>
               Invocations(hookLog', h) = Invocations(hookLog, h)]_vars

(***************************************************************************)
(* C17: a createSession whose ttl is strictly negative fails at once with  *)
(* 'TTL must be a positive number' and posts no request.                   *)
(***************************************************************************)
C17_ValidationBeforeRemote ==
    [][(Issues /\ Issued.op = "create" /\ ttl'.k = "number" /\ ttl'.n < 0) =>
           /\ Issued.status = "threw"
           /\ Issued.error = "TTL must be a positive number"
           /\ Issued.rid = 0
           /\ remoteLog' = remoteLog]_vars

(***************************************************************************)
(* C18: the TTL is in seconds: a manager constructed, directly or by       *)
(* createSession, with a positive finite ttl has a debounced function      *)
(* whose delay is ttl * 1000 ms.                                           *)
(***************************************************************************)
C18_TTLInSeconds ==
    (mgr = "live" /\ PositiveFinite(ttl)) =>
        /\ resetDebounce.created
        /\ resetDebounce.wait = ttl.n * 1000

(***************************************************************************)
(* C19: when the remote call of a dispatcher command fails with a          *)
(* structured error body, the call throws one error whose message starts   *)
(* with '[FlareSolverr Error] ' and contains the body's status, its        *)
(* message, both timestamps rendered as dates, and its version; when it    *)
(* fails with an error that has no structured body (no response, or a      *)
(* response whose body is null or lacks those fields), the call throws an  *)
(* error whose message is '[FlareSolverr Error] ' followed by the          *)
(* underlying message only; a rejection that is not an Error is thrown as  *)
(* it came.  In every case the call returns no value.                      *)
(***************************************************************************)
C19_NormalizedFailure ==
    [][\A i \in DOMAIN calls : \A e \in ErrorShapes :
           Fails(i, e) =>
               LET structured == e.hasResponse /\ e.data.shape = "full"
               IN /\ calls'[i].status = "remoteError"
                  /\ calls'[i].value = NoBody
                  /\ structured =>
                         /\ calls'[i].thrown = "Error"
                         /\ SubSeq(calls'[i].error, 1, 21) = "[FlareSolverr Error] "
                         /\ Contains(calls'[i].error, e.data.status \o ": ")
                         /\ Contains(calls'[i].error, e.data.message)
                         /\ Contains(calls'[i].error,
                                "Start at: " \o DateString(e.data.startTimestamp))
                         /\ Contains(calls'[i].error,
                                "End at: " \o DateString(e.data.endTimestamp))
                         /\ Contains(calls'[i].error,
                                "Version: " \o e.data.version)
                  /\ (e.isError /\ ~structured) =>
                         /\ calls'[i].thrown = "Error"
                         /\ calls'[i].error =
                                "[FlareSolverr Error] " \o OrUnknown(e.message)
                  /\ ~e.isError =>
                         /\ calls'[i].thrown = "value"
                         /\ calls'[i].error = e.message]_vars

(***************************************************************************)
(* C20: an invocation of createSession, destroy, requestGet or requestPost *)
(* that passes its guard posts exactly one request, at the moment it is    *)
(* issued, and an invocation the guard rejects posts none; no other step   *)
(* posts a request, so nothing is posted again after a failure; every      *)
(* request posted belongs to exactly one invocation; and the failure of    *)
(* the remote call is thrown to the caller, who gets no value.             *)
(***************************************************************************)
C20_OneTransportCall ==
    [][/\ Issues =>
              IF Issued.status = "pending"
              THEN /\ Len(remoteLog') = Len(remoteLog) + 1
                   /\ SubSeq(remoteLog', 1, Len(remoteLog)) = remoteLog
                   /\ Issued.rid = Len(remoteLog')
                   /\ remoteLog'[Issued.rid].cmd = Str(CmdOf(Issued.op))
              ELSE /\ remoteLog' = remoteLog
                   /\ Issued.rid = 0
       /\ ~Issues => remoteLog' = remoteLog
       /\ \A r \in DOMAIN remoteLog' :
              Cardinality({i \in DOMAIN calls' : calls'[i].rid = r}) = 1
       /\ \A i \in DOMAIN calls :
              (calls[i].status = "pending" /\ calls'[i].status # "pending") =>
                  \/ calls'[i].status \in {"ok", "threw"}
                  \/ /\ calls'[i].status = "remoteError"
                     /\ calls'[i].error \in RemoteErrorMessages
                     /\ calls'[i].value = NoBody]_vars

\* A requestGet has failed; nothing was posted again for it; the caller has
\* called requestGet again, which posted its own request and succeeded.
C20_Witness ==
    /\ Len(calls) = 2
    /\ calls[1].op = "get" /\ calls[1].status = "remoteError"
    /\ calls[1].rid = 1
    /\ calls[2].op = "get" /\ calls[2].status = "ok" /\ calls[2].rid = 2
    /\ Len(remoteLog) = 2

(***************************************************************************)
(* C21: the request the dispatcher posts for a forwarded requestGet or     *)
(* requestPost has the command of the operation as cmd, and as maxTimeout  *)
(* the payload's maxTimeout when the payload carries a value, the default  *)
(* of the dispatcher otherwise, also when the payload has the key          *)
(* maxTimeout with the value undefined.                                    *)
(***************************************************************************)
C21_EffectiveMaxTimeout ==
    [][\A op \in {"get", "post"} :
           \A d \in Payloads(GetData) \cup Payloads(PostData) :
               (Request(op, d) /\ ~isDestroyed) =>
                   /\ Posted.cmd = Str(CmdOf(op))
                   /\ Posted.maxTimeout =
                          IF Get(d, "maxTimeout") # Undefined
                          THEN d.maxTimeout
                          ELSE Num(DefaultMaxTimeout)]_vars

(***************************************************************************)
(* C25: the request posted for a forwarded requestGet/requestPost carries  *)
(* the manager's own session id and, in the hook build, the manager's ttl  *)
(* as session_ttl_minutes, whatever the caller's payload has in those      *)
(* fields; every other field of the payload is posted as the caller gave   *)
(* it, and nothing else is added but cmd and maxTimeout.                   *)
(***************************************************************************)
C25_SessionFieldsInjected ==
    [][\A op \in {"get", "post"} :
           \A d \in Payloads(GetData) \cup Payloads(PostData) :
               (Request(op, d) /\ ~isDestroyed) =>
                   LET own == IF variant = "hooks"
                              THEN {"session", "session_ttl_minutes"}
                              ELSE {"session"}
                   IN /\ Posted.session = Str(SessionId)
                      /\ variant = "hooks" => Posted.session_ttl_minutes = ttl
                      /\ \A key \in (DOMAIN d) \ own : Posted[key] = d[key]
                      /\ DOMAIN Posted =
                             (DOMAIN d) \cup own \cup {"cmd", "maxTimeout"}]_vars

\* Hook build, ttl 2: a requestPost whose payload had a maxTimeout of its own
\* was posted with the manager's session id and ttl.
C25_Witness ==
    /\ variant = "hooks"
    /\ ttl = Num(2)
    /\ Len(calls) = 1 /\ calls[1].op = "post" /\ calls[1].status = "ok"
    /\ remoteLog[1].session = Str("s1")
    /\ remoteLog[1].session_ttl_minutes = Num(2)
    /\ remoteLog[1].maxTimeout = Num(1000)
    /\ remoteLog[1].postData = Str("a=b")

(***************************************************************************)
(* C23: in the hook build the expiry of the idle timer sets the flag and   *)
(* runs the hooks and nothing else: it posts no request and issues no      *)
(* call, so every sessions.destroy request ever posted belongs to a        *)
(* destroy() called by the user, and there is none if the user never       *)
(* called destroy().                                                       *)
(***************************************************************************)
C23_ExpiryPostsNothing ==
    [][variant = "hooks" =>
           /\ Expires =>
                  /\ isDestroyed'
                  /\ remoteLog' = remoteLog
                  /\ calls' = calls
           /\ \A r \in DOMAIN remoteLog' :
                  remoteLog'[r].cmd = Str("sessions.destroy") =>
                      \E i \in DOMAIN calls' :
                          /\ calls'[i].op = "destroy"
                          /\ ~calls'[i].byTimer
                          /\ calls'[i].rid = r]_vars

\* Hook build: the session was Destroyed by the timer after one requestGet;
\* the only request ever posted is the request.get.
C23_Witness ==
    /\ variant = "hooks"
    /\ expiries = 1
    /\ isDestroyed
    /\ NoUserDestroy
    /\ Len(remoteLog) = 1
    /\ remoteLog[1].cmd = Str("request.get")
    /\ DestroyRequests = {}

(***************************************************************************)
(* C24: hooks are invoked by one step only, the first expiry of the idle   *)
(* timer in the hook build, and that step invokes each hook at most once   *)
(* for each of its registrations: what it invokes is the registry, in      *)
(* order, up to the first invocation that throws; no later step, whatever  *)
(* destroy(), scoped calls and timer events follow, invokes a hook again.  *)
(***************************************************************************)
C24_HooksAtMostOnce ==
    [][/\ (variant = "hooks" /\ Expires) =>
              /\ expiries = 0
              /\ hookLog = <<>>
              /\ Len(hookLog') <= Len(destroyHooks)
              /\ hookLog' = SubSeq(destroyHooks, 1, Len(hookLog'))
              /\ \A h \in Hooks :
                     Invocations(hookLog', h) <= Invocations(destroyHooks, h)
       /\ ~(variant = "hooks" /\ Expires) => hookLog' = hookLog]_vars

\* A requestGet armed the timer, a destroy() succeeded, the timer expired
\* and ran the two hooks, and the clock has since reached its bound.
C24_Witness ==
    /\ variant = "hooks"
    /\ DestroyedByDestroy
    /\ expiries = 1
    /\ hookLog = <<"h1", "h2">>
    /\ destroyHooks = <<"h1", "h2">>
    /\ now = MaxTicks * HalfUnit(variant)
    /\ ~resetDebounce.pending

(***************************************************************************)
(* C26: at most one destroy() of a manager returns a success response,     *)
(* i.e. at most one sessions.destroy request is answered with success,     *)
(* also when a destroy() is called while another is awaiting its answer.   *)
(***************************************************************************)
C26_OneSuccessfulDestroy ==
    Cardinality({i \in DOMAIN calls :
                    calls[i].op = "destroy" /\ calls[i].status = "ok"}) <= 1

(***************************************************************************)
(* C27: in the build whose timer calls destroy(), as long as the user has  *)
(* called destroy() at most once, no destroy() called by the timer fails   *)
(* with 'Session already destroyed', and at most one sessions.destroy      *)
(* request is posted.                                                      *)
(***************************************************************************)
C27_NoTimerDestroyOnDestroyed ==
    (/\ variant = "destroy"
     /\ Cardinality({i \in DOMAIN calls :
                        calls[i].op = "destroy" /\ ~calls[i].byTimer}) <= 1) =>
        /\ \A i \in DOMAIN calls :
               calls[i].byTimer => calls[i].status # "alreadyDestroyed"
        /\ Cardinality(DestroyRequests) <= 1

(***************************************************************************)
(* C28: a step that changes the hook registry is an addDestroyHook, which  *)
(* appends one hook, or a removeDestroyHook, and it leaves the destroyed   *)
(* flag, the idle timer, the calls, the posted requests and the invoked    *)
(* hooks as they are; removeDestroyHook(fn) leaves exactly the hooks       *)
(* different from fn, in their original order, so it removes every         *)
(* registration of fn and changes nothing when fn is not registered.       *)
(***************************************************************************)
C28_HookOpsFrame ==
    [][/\ destroyHooks' # destroyHooks =>
              /\ isDestroyed' = isDestroyed
              /\ resetDebounce' = resetDebounce
              /\ calls' = calls
              /\ remoteLog' = remoteLog
              /\ hookLog' = hookLog
              /\ expiries' = expiries
              /\ \E h \in AllHooks :
                     \/ destroyHooks' = Append(destroyHooks, h)
                     \/ destroyHooks' = SelectSeq(destroyHooks, LAMBDA x : x # h)
       /\ \A h \in AllHooks :
              RemoveDestroyHook(h) =>
                  /\ destroyHooks' = SelectSeq(destroyHooks, LAMBDA x : x # h)
                  /\ ~Registered(destroyHooks', h)
                  /\ ~Registered(destroyHooks, h) => destroyHooks' = destroyHooks
       /\ \A h \in AllHooks :
              AddDestroyHook(h) => destroyHooks' = Append(destroyHooks, h)]_vars

\* h2 was registered and removed while a timer was pending; h3 and h1 are
\* registered, in that order, the session is Active and the timer is still
\* due one TTL after the requestGet.
C28_Witness ==
    /\ hookNote["h2"] = "removed"
    /\ destroyHooks = <<"h3", "h1">>
    /\ ~isDestroyed
    /\ resetDebounce.pending
    /\ Len(calls) = 1
    /\ DueTime(resetDebounce) = lastActivity + Wait
    /\ now > lastActivity

(***************************************************************************)
(* C22: of two managers on one dispatcher, every call, settlement, hook    *)
(* operation, construction and timer expiry of one leaves all the fields   *)
(* of the other, its destroyed flag, hook registry and idle timer among    *)
(* them, unchanged; turning to the other manager changes neither; and the  *)
(* request the dispatcher posts for a call is determined by the operation  *)
(* and the fields of the manager called, not by earlier calls or by the    *)
(* other manager.                                                          *)
(***************************************************************************)
C22_ManagersIndependent ==
    [][/\ \/ other' = other
          \/ /\ other' = This
             /\ This' = other
             /\ calls' = calls
             /\ remoteLog' = remoteLog
             /\ hookLog' = hookLog
       /\ (Issues /\ Issued.status = "pending") =>
              Posted = IF Issued.op = "destroy"
                       THEN HandleV1Request("sessions.destroy",
                                            DestroyPayload(NoData))
                       ELSE HandleV1Request("request.get",
                                ScopedPayload(variant, GetData, ttl))]_vars

\* Hook build: the timer of one manager has expired and the manager is
\* Destroyed, while the other, called half a TTL later and still waiting
\* for the answer, is Active with its hook registered and its own timer
\* pending.
C22_Witness ==
    /\ variant = "hooks"
    /\ mgr = "live" /\ isDestroyed /\ expiries = 1
    /\ other.mgr = "live"
    /\ ~other.isDestroyed
    /\ other.expiries = 0
    /\ other.destroyHooks = <<"h1">>
    /\ other.resetDebounce.pending
    /\ DueTime(other.resetDebounce) > now
    /\ \E i \in DOMAIN calls :
           calls[i].owner = other.self /\ calls[i].status = "pending"
    /\ hookLog = <<>>

====
